---- MODULE Spec2Model ----
(***************************************************************************)
(* Model of src/main.py: the three FastAPI handlers of the FFIEC Data      *)
(* Connector Service (get_bank_reports, get_raw_call_data,                 *)
(* get_bank_deposit_data).  One behaviour is one request.  The external    *)
(* library (ffiec_data_connect) is the environment: what it holds for the  *)
(* reporting period is chosen in Init, and each of its calls either        *)
(* returns or raises.                                                      *)
(*                                                                         *)
(* Python values are tagged records [t, v]: t is the Python type and v the *)
(* payload.  A str payload is a sequence of one-character strings, a dict  *)
(* payload is a function from keys to str payloads, a list payload is a    *)
(* sequence of tagged values.                                              *)
(***************************************************************************)
EXTENDS Naturals, Sequences, FiniteSets, TLC

VARIABLES
    handler,          \* which endpoint serves the request
    bank_name,        \* query parameter, a str payload
    state,            \* query parameter, None or a str
    deposit_mdrm,     \* query parameter, a str payload
    svc_filers,       \* what collect_filers_on_reporting_period would return
    svc_series,       \* what collect_data would return
    pc,               \* position of the handler
    filers,           \* local: Unset or a list
    selected_filer,   \* local: Unset, None or a dict
    filtered_filings, \* local of get_bank_reports: Unset or a list
    rssd_id,          \* local: Unset, None or a str
    time_series,      \* local: Unset or a list
    deposit_data,     \* local: Unset or a list
    exc,              \* the exception bound to e in the except clause
    calls,            \* log of the external-library calls made so far
    response          \* the HTTP response, NoResponse until the handler ends

vars == <<handler, bank_name, state, deposit_mdrm, svc_filers, svc_series, pc,
          filers, selected_filer, filtered_filings, rssd_id, time_series,
          deposit_data, exc, calls, response>>

(***************************************************************************)
(* Bounds of the model.                                                    *)
(***************************************************************************)
MaxFilers == 2
MaxSeries == 3

(***************************************************************************)
(* Python values.                                                          *)
(***************************************************************************)
None == [t |-> "none", v |-> <<>>]
Unset == [t |-> "unset", v |-> <<>>]
PyStr(s) == [t |-> "str", v |-> s]
PyDict(d) == [t |-> "dict", v |-> d]
PyList(s) == [t |-> "list", v |-> s]

EmptyDict == [k \in {} |-> <<>>]

\* isinstance(x, dict)
IsDict(x) == x.t = "dict"

\* type(x).__name__
TypeName(x) == x.t

\* Python truthiness of None, a str, a dict or a list
Truthy(x) ==
    CASE x.t = "none" -> FALSE
      [] x.t = "str"  -> Len(x.v) > 0
      [] x.t = "dict" -> DOMAIN x.v # {}
      [] x.t = "list" -> Len(x.v) > 0
      [] OTHER -> FALSE

\* d.get(key, default) for a str-valued field, as a str payload
GetStr(d, key, default) == IF key \in DOMAIN d.v THEN d.v[key] ELSE default

\* d.get(key): the field as a str, or None
GetOrNone(d, key) == IF key \in DOMAIN d.v THEN PyStr(d.v[key]) ELSE None

UpperLetters == <<"A", "B", "C", "D", "F", "R", "T", "X">>
LowerLetters == <<"a", "b", "c", "d", "f", "r", "t", "x">>

LowerChar(c) ==
    IF \E i \in 1..Len(UpperLetters) : UpperLetters[i] = c
    THEN LowerLetters[CHOOSE i \in 1..Len(UpperLetters) : UpperLetters[i] = c]
    ELSE c

\* str.lower()
Lower(s) == [i \in 1..Len(s) |-> LowerChar(s[i])]

\* sub in s, for two str payloads
StrIn(sub, s) ==
    \E i \in 0..Len(s) :
        /\ i + Len(sub) <= Len(s)
        /\ SubSeq(s, i + 1, i + Len(sub)) = sub

(***************************************************************************)
(* The filer scans (lines 30-40, 68-80, 121-133).                          *)
(***************************************************************************)

\* The nested test of one loop iteration: isinstance, the name test, and the
\* state test when state is truthy.
FilerPasses(filer, bn, st) ==
    IF IsDict(filer)
    THEN LET name == GetStr(filer, "name", <<>>)
             filer_state == GetStr(filer, "state", <<>>)
         IN  IF StrIn(Lower(bn), Lower(name))
             THEN IF Truthy(st)
                  THEN StrIn(Lower(st.v), Lower(filer_state))
                  ELSE TRUE
             ELSE FALSE
    ELSE FALSE

RECURSIVE SelectFrom(_, _, _, _)
\* The selecting loop from position i on: the first passing filer is bound to
\* selected_filer and the loop breaks; None when the loop runs out.
SelectFrom(fs, i, bn, st) ==
    IF i > Len(fs) THEN None
    ELSE IF FilerPasses(fs[i], bn, st) THEN fs[i]
    ELSE SelectFrom(fs, i + 1, bn, st)

RECURSIVE FilterFrom(_, _, _, _, _)
\* The listing loop of get_bank_reports: every passing filer is appended.
FilterFrom(fs, i, bn, st, acc) ==
    IF i > Len(fs) THEN acc
    ELSE IF FilerPasses(fs[i], bn, st)
         THEN FilterFrom(fs, i + 1, bn, st, Append(acc, fs[i]))
         ELSE FilterFrom(fs, i + 1, bn, st, acc)

FilterFilings(fs, bn, st) == FilterFrom(fs, 1, bn, st, <<>>)

\* Variant: the loop without its break statements keeps the last passing filer
SelectLastFiler(fs, bn, st) ==
    LET kept == FilterFilings(fs, bn, st)
    IN  IF kept = <<>> THEN None ELSE kept[Len(kept)]

SelectFiler(fs, bn, st) == SelectFrom(fs, 1, bn, st)

DebugLimit == 3

\* debug_info: type name and value of the first few filers
DebugInfo(fs) ==
    LET n == IF Len(fs) < DebugLimit THEN Len(fs) ELSE DebugLimit
    IN  [i \in 1..n |-> [type |-> TypeName(fs[i]), value |-> fs[i]]]

\* Variant: a filer without an identifier is treated as not found
NotSelectedOrNoId(sel) == ~Truthy(sel) \/ "id_rssd" \notin DOMAIN sel.v

\* The test of the not-found branch: if not selected_filer
NotSelected(sel) == ~Truthy(sel)

\* Variant: the identifier is read under another key
RssdOfWrongKey(sel) == GetOrNone(sel, "rssd")

\* rssd_id = selected_filer.get("id_rssd")
RssdOf(sel) == GetOrNone(sel, "id_rssd")

(***************************************************************************)
(* The metric extraction (lines 146-149).                                  *)
(***************************************************************************)

\* Variant: the code is compared ignoring letter case
RecordPassesAnyCase(record, code) ==
    /\ IsDict(record)
    /\ "mdrm" \in DOMAIN record.v
    /\ Lower(record.v["mdrm"]) = Lower(code)

\* isinstance(record, dict) and record.get("mdrm") == deposit_mdrm
RecordPasses(record, code) ==
    IsDict(record) /\ GetOrNone(record, "mdrm") = PyStr(code)

RECURSIVE ExtractFrom(_, _, _, _)
ExtractFrom(ts, i, code, acc) ==
    IF i > Len(ts) THEN acc
    ELSE IF RecordPasses(ts[i], code)
         THEN ExtractFrom(ts, i + 1, code, Append(acc, ts[i]))
         ELSE ExtractFrom(ts, i + 1, code, acc)

\* Variant: each kept record is put in front of the ones kept before it
ExtractDepositsReversed(ts, code) ==
    LET kept == ExtractFrom(ts, 1, code, <<>>)
    IN  [i \in 1..Len(kept) |-> kept[Len(kept) + 1 - i]]

ExtractDeposits(ts, code) == ExtractFrom(ts, 1, code, <<>>)

(***************************************************************************)
(* Exceptions and responses.                                               *)
(***************************************************************************)
BankNotFoundDetail == "Bank not found for the given reporting period"
ObjectReferenceMsg == "Object reference not set to an instance of an object."
TimeoutMsg == "Read timed out."

\* Messages of the exceptions the external library is made to raise
LibraryMessages == {ObjectReferenceMsg, TimeoutMsg}

NoExc == [cls |-> "none", status |-> 0, detail |-> ""]
LibraryError(msg) == [cls |-> "Exception", status |-> 0, detail |-> msg]
HTTPException(code, msg) == [cls |-> "HTTPException", status |-> code, detail |-> msg]

\* raise HTTPException(status_code=404, detail=...)
BankNotFound == HTTPException(404, BankNotFoundDetail)

\* Variant: the except clause answers with a fixed text
StrOfFixed(e) == {"Internal Server Error"}

\* str(e).  A plain exception renders as its message.  HTTPException is built
\* with keyword arguments only, so its args are empty: it renders as "" where
\* the framework defines no __str__, and as "<status>: <detail>" where it does.
StrOf(e) ==
    IF e.cls = "HTTPException"
    THEN {"", ToString(e.status) \o ": " \o e.detail}
    ELSE {e.detail}

NoBody == [k \in {} |-> None]
NoResponse == [status |-> 0, detail |-> "", body |-> NoBody]

\* return {...}: the framework answers 200 with the returned mapping
Returned(body) == [status |-> 200, detail |-> "", body |-> body]

\* Variant: the recognized message is answered as a soft outcome
ExceptClauseSoft(rendering) ==
    IF rendering = ObjectReferenceMsg
    THEN [status |-> 200, detail |-> "No data filed", body |-> NoBody]
    ELSE [status |-> 500, detail |-> rendering, body |-> NoBody]

\* except Exception as e: raise HTTPException(status_code=500, detail=str(e))
ExceptClause(rendering) == [status |-> 500, detail |-> rendering, body |-> NoBody]

(***************************************************************************)
(* Inputs.  A request's parameters and what the external service holds are *)
(* fixed when the request starts.  They are drawn from three families, one *)
(* per stage under study, so that each stage sees all the shapes that      *)
(* matter to it: the name/state scan, the identifier, the extraction.      *)
(***************************************************************************)
Handlers == {"get_bank_reports", "get_raw_call_data", "get_bank_deposit_data"}
Selecting == {"get_raw_call_data", "get_bank_deposit_data"}

\* All lists of at most n elements of S
ListsUpTo(S, n) == UNION {[1..k -> S] : k \in 0..n}

\* f restricted to the keys in K
Restrict(f, K) == [k \in K |-> f[k]]

\* A list entry that is no mapping
NonMapping == PyStr(<<"x">>)

\* Default of the deposit_mdrm parameter (RCONB834, shortened)
DefaultMdrm == <<"R", "C">>

BankNames == {<<>>, <<"A">>, <<"b">>, <<"a", "b">>}
StateParams == {None, PyStr(<<>>), PyStr(<<"t">>), PyStr(<<"X">>)}
NameValues == {<<>>, <<"a", "B">>, <<"b">>}
StateValues == {<<"T", "x">>, <<"c">>}

\* Family 1: every presence and value of name and state, each record with an
\* identifier, plus the record with no fields and an entry that is no mapping.
ScanFilers ==
    {PyDict(Restrict([name |-> n, state |-> s, id_rssd |-> <<"1">>], K)) :
        n \in NameValues, s \in StateValues,
        K \in {{"id_rssd"} \cup J : J \in SUBSET {"name", "state"}}}
    \cup {PyDict(EmptyDict), NonMapping}

\* Family 2: two names, the identifier absent or one of two values.
IdFilers ==
    {PyDict(Restrict([name |-> n, id_rssd |-> i], K)) :
        n \in {<<"a", "B">>, <<"c">>}, i \in {<<"1">>, <<"2">>},
        K \in {{"name"}, {"name", "id_rssd"}}}

\* Family 3: time-series entries with the mdrm absent or in three spellings,
\* two values each, plus an entry that is no mapping.
MdrmValues == {<<"R", "C">>, <<"r", "c">>, <<"F", "D">>}
SeriesRecords ==
    {PyDict(Restrict([mdrm |-> m, value |-> w], K)) :
        m \in MdrmValues, w \in {<<"1">>, <<"2">>},
        K \in {{"mdrm", "value"}}}
    \cup {PyDict([value |-> <<"1">>]), NonMapping}

OneRecord == <<PyDict([mdrm |-> <<"R", "C">>, value |-> <<"1">>])>>

InitScan ==
    /\ bank_name \in BankNames
    /\ state \in StateParams
    /\ deposit_mdrm = DefaultMdrm
    /\ svc_filers \in ListsUpTo(ScanFilers, MaxFilers)
    /\ svc_series = OneRecord

InitIdentifier ==
    /\ bank_name = <<"a", "b">>
    /\ state = None
    /\ deposit_mdrm = DefaultMdrm
    /\ svc_filers \in ListsUpTo(IdFilers, MaxFilers)
    /\ svc_series \in {<<>>, OneRecord}

InitExtraction ==
    /\ bank_name = <<"a", "b">>
    /\ state = None
    /\ deposit_mdrm \in {<<"R", "C">>, <<"r", "c">>}
    /\ svc_filers = <<PyDict([name |-> <<"a", "B">>, id_rssd |-> <<"1">>])>>
    /\ svc_series \in ListsUpTo(SeriesRecords, MaxSeries)

Init ==
    /\ handler \in Handlers
    /\ InitScan \/ InitIdentifier \/ InitExtraction
    /\ pc = "credentials"
    /\ filers = Unset
    /\ selected_filer = Unset
    /\ filtered_filings = Unset
    /\ rssd_id = Unset
    /\ time_series = Unset
    /\ deposit_data = Unset
    /\ exc = NoExc
    /\ calls = <<>>
    /\ response = NoResponse

(***************************************************************************)
(* The handlers, one action per step.  Lines are those of                  *)
(* get_bank_deposit_data; the other two handlers repeat them.              *)
(***************************************************************************)
Params == <<handler, bank_name, state, deposit_mdrm, svc_filers, svc_series>>
Locals == <<filers, selected_filer, filtered_filings, rssd_id, time_series, deposit_data>>

Call(op, arg, ok) == [op |-> op, arg |-> arg, ok |-> ok]

\* An external call raises: control goes to the except clause, which answers.
Raises(op, arg, msg) ==
    /\ calls' = Append(calls, Call(op, arg, FALSE))
    /\ exc' = LibraryError(msg)
    /\ \E r \in StrOf(LibraryError(msg)) : response' = ExceptClause(r)
    /\ pc' = "done"
    /\ UNCHANGED <<Params, Locals>>

\* creds = credentials.WebserviceCredentials(username=user, password=token)
CreateCredentials ==
    /\ pc = "credentials"
    /\ calls' = Append(calls, Call("WebserviceCredentials", None, TRUE))
    /\ pc' = "connection"
    /\ UNCHANGED <<Params, Locals, exc, response>>

CreateCredentialsRaises ==
    /\ pc = "credentials"
    /\ \E msg \in LibraryMessages : Raises("WebserviceCredentials", None, msg)

\* conn = ffiec_connection.FFIECConnection()
Connect ==
    /\ pc = "connection"
    /\ calls' = Append(calls, Call("FFIECConnection", None, TRUE))
    /\ pc' = "filers"
    /\ UNCHANGED <<Params, Locals, exc, response>>

ConnectRaises ==
    /\ pc = "connection"
    /\ \E msg \in LibraryMessages : Raises("FFIECConnection", None, msg)

\* filers = methods.collect_filers_on_reporting_period(...)
CollectFilers ==
    /\ pc = "filers"
    /\ calls' = Append(calls, Call("collect_filers_on_reporting_period", None, TRUE))
    /\ filers' = PyList(svc_filers)
    /\ pc' = "scan"
    /\ UNCHANGED <<Params, selected_filer, filtered_filings, rssd_id,
                   time_series, deposit_data, exc, response>>

CollectFilersRaises ==
    /\ pc = "filers"
    /\ \E msg \in LibraryMessages :
           Raises("collect_filers_on_reporting_period", None, msg)

\* get_bank_reports, lines 28-41: debug_info, the listing loop, the return
ListFilings ==
    /\ pc = "scan"
    /\ handler = "get_bank_reports"
    /\ filtered_filings' = PyList(FilterFilings(filers.v, bank_name, state))
    /\ response' = Returned([debug |-> PyList(DebugInfo(filers.v)),
                             filtered_filings |-> filtered_filings'])
    /\ pc' = "done"
    /\ UNCHANGED <<Params, filers, selected_filer, rssd_id, time_series,
                   deposit_data, exc, calls>>

\* lines 121-136 when a filer is kept: the selecting loop, then rssd_id
SelectFound ==
    /\ pc = "scan"
    /\ handler \in Selecting
    /\ selected_filer' = SelectFiler(filers.v, bank_name, state)
    /\ ~NotSelected(selected_filer')
    /\ rssd_id' = RssdOf(selected_filer')
    /\ pc' = "data"
    /\ UNCHANGED <<Params, filers, filtered_filings, time_series, deposit_data,
                   exc, calls, response>>

\* lines 121-135 when none is kept: the 404 is raised inside the try block, so
\* the except clause of line 155 catches it and answers in its place
SelectNotFound ==
    /\ pc = "scan"
    /\ handler \in Selecting
    /\ selected_filer' = SelectFiler(filers.v, bank_name, state)
    /\ NotSelected(selected_filer')
    /\ exc' = BankNotFound
    /\ \E r \in StrOf(BankNotFound) : response' = ExceptClause(r)
    /\ pc' = "done"
    /\ UNCHANGED <<Params, filers, filtered_filings, rssd_id, time_series,
                   deposit_data, calls>>

\* time_series = methods.collect_data(..., rssd_id=rssd_id, ...)
CollectData ==
    /\ pc = "data"
    /\ calls' = Append(calls, Call("collect_data", rssd_id, TRUE))
    /\ time_series' = PyList(svc_series)
    /\ pc' = "result"
    /\ UNCHANGED <<Params, filers, selected_filer, filtered_filings, rssd_id,
                   deposit_data, exc, response>>

CollectDataRaises ==
    /\ pc = "data"
    /\ \E msg \in LibraryMessages : Raises("collect_data", rssd_id, msg)

\* get_raw_call_data, line 92
ReturnRaw ==
    /\ pc = "result"
    /\ handler = "get_raw_call_data"
    /\ response' = Returned([selected_filer |-> selected_filer,
                             raw_time_series |-> time_series])
    /\ pc' = "done"
    /\ UNCHANGED <<Params, Locals, exc, calls>>

\* get_bank_deposit_data, lines 146-154
ReturnDeposits ==
    /\ pc = "result"
    /\ handler = "get_bank_deposit_data"
    /\ deposit_data' = PyList(ExtractDeposits(time_series.v, deposit_mdrm))
    /\ response' = Returned([selected_filer |-> selected_filer,
                             deposit_data |-> deposit_data',
                             raw_time_series |-> time_series])
    /\ pc' = "done"
    /\ UNCHANGED <<Params, filers, selected_filer, filtered_filings, rssd_id,
                   time_series, exc, calls>>

Next ==
    \/ CreateCredentials
    \/ CreateCredentialsRaises
    \/ Connect
    \/ ConnectRaises
    \/ CollectFilers
    \/ CollectFilersRaises
    \/ ListFilings
    \/ SelectFound
    \/ SelectNotFound
    \/ CollectData
    \/ CollectDataRaises
    \/ ReturnRaw
    \/ ReturnDeposits

Spec == Init /\ [][Next]_vars

(***************************************************************************)
(* Vocabulary of the properties.                                           *)
(***************************************************************************)

\* The match as the specification words it: a mapping whose name contains
\* bank_name and, when state is given and not empty, whose state contains it,
\* both ignoring letter case.
Matches(r) ==
    /\ r.t = "dict"
    /\ StrIn(Lower(bank_name), Lower(GetStr(r, "name", <<>>)))
    /\ (state.t = "str" /\ state.v # <<>>)
           => StrIn(Lower(state.v), Lower(GetStr(r, "state", <<>>)))

FilersFetched == filers.t = "list"
SomeMatch == \E i \in 1..Len(filers.v) : Matches(filers.v[i])
CallOps == [i \in 1..Len(calls) |-> calls[i].op]
DataCalled == \E i \in 1..Len(calls) : calls[i].op = "collect_data"
NotFoundResponses == {ExceptClause(r) : r \in StrOf(BankNotFound)}

RECURSIVE IsSubsequence(_, _)
\* a can be obtained from b by deleting elements
IsSubsequence(a, b) ==
    IF a = <<>> THEN TRUE
    ELSE IF b = <<>> THEN FALSE
    ELSE IF Head(a) = Head(b) THEN IsSubsequence(Tail(a), Tail(b))
    ELSE IsSubsequence(a, Tail(b))

\* C1: in the selecting handlers, the filer the scan keeps is a record of the
\* fetched list that matches, no record before it in the list matches, and a
\* successful response carries that very record.
C1_FirstMatchSelected ==
    (handler \in Selecting /\ selected_filer.t = "dict") =>
        /\ \E i \in 1..Len(filers.v) :
              /\ filers.v[i] = selected_filer
              /\ Matches(filers.v[i])
              /\ \A j \in 1..(i - 1) : ~Matches(filers.v[j])
        /\ response.status = 200 => response.body.selected_filer = selected_filer

\* C1 happens: with a state filter, two different records match and the
\* earlier one is answered.
C1_Witness ==
    /\ response.status = 200
    /\ handler = "get_raw_call_data"
    /\ Truthy(state)
    /\ Len(filers.v) = 2
    /\ filers.v[1] # filers.v[2]
    /\ Matches(filers.v[1]) /\ Matches(filers.v[2])
    /\ response.body.selected_filer = filers.v[1]

\* C2: when the selecting handlers have fetched a list in which no record
\* matches (the empty list included), the request ends with status 404 and
\* the detail "Bank not found for the given reporting period".
C2_NotFoundIs404 ==
    (pc = "done" /\ handler \in Selecting /\ FilersFetched /\ ~SomeMatch) =>
        /\ response.status = 404
        /\ response.detail = BankNotFoundDetail

\* C3 as claimed: a record of the time series is in deposit_data exactly when
\* its mdrm equals deposit_mdrm ignoring letter case.
C3_CaseInsensitiveCode ==
    deposit_data.t = "list" =>
        \A i \in 1..Len(time_series.v) :
            (\E k \in 1..Len(deposit_data.v) : deposit_data.v[k] = time_series.v[i])
            <=> /\ time_series.v[i].t = "dict"
                /\ "mdrm" \in DOMAIN time_series.v[i].v
                /\ Lower(time_series.v[i].v["mdrm"]) = Lower(deposit_mdrm)

\* C3 amended: a record of the time series is in deposit_data exactly when it
\* is a mapping whose mdrm equals deposit_mdrm letter for letter.
C3_ExactCode ==
    deposit_data.t = "list" =>
        \A i \in 1..Len(time_series.v) :
            (\E k \in 1..Len(deposit_data.v) : deposit_data.v[k] = time_series.v[i])
            <=> /\ time_series.v[i].t = "dict"
                /\ "mdrm" \in DOMAIN time_series.v[i].v
                /\ time_series.v[i].v["mdrm"] = deposit_mdrm

\* C3 happens: the time series holds the requested code in the requested
\* spelling and in another one; only the former is answered.
C3_Witness ==
    /\ pc = "done"
    /\ deposit_data.t = "list"
    /\ Len(deposit_data.v) = 1
    /\ \E i, j \in 1..Len(time_series.v) :
          /\ time_series.v[i].t = "dict" /\ time_series.v[j].t = "dict"
          /\ "mdrm" \in DOMAIN time_series.v[i].v
          /\ "mdrm" \in DOMAIN time_series.v[j].v
          /\ time_series.v[i].v["mdrm"] = deposit_mdrm
          /\ time_series.v[j].v["mdrm"] # deposit_mdrm
          /\ Lower(time_series.v[j].v["mdrm"]) = Lower(deposit_mdrm)

\* C4: deposit_data is a subsequence of the fetched time series in its order,
\* so never longer; when no record carries the code (the empty series
\* included) it is the empty list; and the request that built it succeeds,
\* answering it, also when it is empty.
C4_SubsequenceAndEmptyOk ==
    deposit_data.t = "list" =>
        /\ time_series.t = "list"
        /\ IsSubsequence(deposit_data.v, time_series.v)
        /\ Len(deposit_data.v) <= Len(time_series.v)
        /\ (\A i \in 1..Len(time_series.v) :
                ~(/\ time_series.v[i].t = "dict"
                  /\ "mdrm" \in DOMAIN time_series.v[i].v
                  /\ Lower(time_series.v[i].v["mdrm"]) = Lower(deposit_mdrm)))
              => deposit_data.v = <<>>
        /\ pc = "done"
        /\ response.status = 200
        /\ response.body.deposit_data = deposit_data

\* C4 happens: two different records carry the code, with another record
\* between them, and are answered in their order.
C4_Witness ==
    /\ pc = "done"
    /\ response.status = 200
    /\ Len(time_series.v) = 3
    /\ deposit_data.t = "list"
    /\ Len(deposit_data.v) = 2
    /\ deposit_data.v[1] = time_series.v[1]
    /\ deposit_data.v[2] = time_series.v[3]
    /\ deposit_data.v[1] # deposit_data.v[2]

\* C5 as claimed: the absence of data at a stage ends the request there, with
\* a response of its own.  A selected filer without id_rssd and an empty time
\* series both stop the request before the next stage, and the response to an
\* unresolved filer is not one an empty filer list is answered with.
C5_AbsenceIsTerminalAndDistinct ==
    /\ (handler \in Selecting /\ Truthy(selected_filer)
            /\ "id_rssd" \notin DOMAIN selected_filer.v) => ~DataCalled
    /\ (time_series.t = "list" /\ time_series.v = <<>>) => deposit_data = Unset
    /\ (pc = "done" /\ handler \in Selecting /\ FilersFetched
            /\ filers.v # <<>> /\ ~SomeMatch)
           => response \notin
                 (IF NotSelected(SelectFiler(<<>>, bank_name, state))
                  THEN NotFoundResponses ELSE {})

\* C5 amended: an empty filer list and a list without a match end alike, in
\* the bank-not-found error, before collect_data is called; a selected filer
\* without id_rssd does not end the request, collect_data is called with
\* rssd_id None; an empty time series and an empty extraction are both
\* answered as a success with an empty deposit_data beside the time series.
C5_AbsenceOutcomes ==
    /\ (pc = "done" /\ handler \in Selecting /\ FilersFetched /\ ~SomeMatch) =>
           /\ response \in NotFoundResponses
           /\ response.status # 200
           /\ ~DataCalled
           /\ time_series = Unset /\ deposit_data = Unset
    /\ (pc \in {"result", "done"} /\ handler \in Selecting
            /\ Truthy(selected_filer)
            /\ "id_rssd" \notin DOMAIN selected_filer.v) =>
           /\ Len(calls) = 4
           /\ calls[4].op = "collect_data"
           /\ calls[4].arg = None
    /\ (pc = "done" /\ handler = "get_bank_deposit_data"
            /\ time_series.t = "list"
            /\ (time_series.v = <<>> \/ deposit_data.v = <<>>)) =>
           /\ response.status = 200
           /\ response.body.deposit_data = PyList(<<>>)
           /\ response.body.raw_time_series = time_series

\* C5 happens: a filer without id_rssd is selected and the request goes on to
\* answer an empty deposit_data for an empty time series.
C5_Witness ==
    /\ pc = "done"
    /\ handler = "get_bank_deposit_data"
    /\ Truthy(selected_filer)
    /\ "id_rssd" \notin DOMAIN selected_filer.v
    /\ DataCalled
    /\ time_series = PyList(<<>>)
    /\ response.status = 200

C7_LibraryErrorIs500 ==
    exc.cls = "Exception" =>
        /\ pc = "done"
        /\ response.status = 500
        /\ response.detail = exc.detail
        /\ response.body = NoBody
        /\ calls # <<>>
        /\ ~calls[Len(calls)].ok
        /\ \A i \in 1..(Len(calls) - 1) : calls[i].ok
        /\ filtered_filings = Unset /\ time_series = Unset /\ deposit_data = Unset
        /\ calls[Len(calls)].op # "collect_data" =>
              (filers = Unset /\ selected_filer = Unset /\ rssd_id = Unset)

\* C7 happens: the listing handler's fetch of the filers raises.
C7_Witness ==
    /\ handler = "get_bank_reports"
    /\ exc = LibraryError(TimeoutMsg)
    /\ Len(calls) = 3
    /\ calls[3].op = "collect_filers_on_reporting_period"
    /\ response.detail = TimeoutMsg

StageOrder ==
    <<"WebserviceCredentials", "FFIECConnection",
      "collect_filers_on_reporting_period", "collect_data">>

\* C8: the external calls are made in the fixed order, each at most once and
\* none after a failed one; the locals are bound stage after stage;
\* collect_data is called only by a selecting handler that kept a filer, with
\* that filer's id_rssd, and never on the bank-not-found path.
C8_StageOrder ==
    /\ Len(calls) <= Len(StageOrder)
    /\ CallOps = SubSeq(StageOrder, 1, Len(calls))
    /\ \A i \in 1..(Len(calls) - 1) : calls[i].ok
    /\ selected_filer # Unset => FilersFetched
    /\ time_series # Unset => (DataCalled /\ calls[Len(calls)].ok)
    /\ deposit_data # Unset => time_series # Unset
    /\ DataCalled =>
          /\ handler \in Selecting
          /\ selected_filer.t = "dict"
          /\ \E i \in 1..Len(filers.v) : filers.v[i] = selected_filer
          /\ calls[Len(calls)].arg = GetOrNone(selected_filer, "id_rssd")
          /\ exc # BankNotFound
    /\ exc = BankNotFound => ~DataCalled

\* C8 happens: the second filer of the list is the one kept and collect_data
\* is called with its identifier, not the first filer's.
C8_Witness ==
    /\ pc = "done"
    /\ handler = "get_bank_deposit_data"
    /\ response.status = 200
    /\ Len(filers.v) = 2
    /\ selected_filer = filers.v[2]
    /\ IsDict(filers.v[1])
    /\ GetOrNone(filers.v[1], "id_rssd") = PyStr(<<"1">>)
    /\ calls[4].arg = PyStr(<<"2">>)

\* C9: when the fetched list holds a record that matches, the selecting
\* handlers do not end in the bank-not-found outcome.
C9_MatchIsFound ==
    (pc = "done" /\ handler \in Selecting /\ FilersFetched /\ SomeMatch)
        => exc # BankNotFound

\* C10: on the same list and parameters, the listing of get_bank_reports is
\* the in-order subsequence of the matching records, the selecting handlers
\* keep its first element, and they end in bank-not-found exactly when it is
\* empty.
C10_EndpointsAgree ==
    /\ filtered_filings.t = "list" =>
          filtered_filings.v = SelectSeq(filers.v, Matches)
    /\ (pc = "done" /\ handler \in Selecting /\ FilersFetched
            /\ exc.cls # "Exception") =>
          LET listing == FilterFilings(filers.v, bank_name, state)
          IN  /\ listing = SelectSeq(filers.v, Matches)
              /\ (exc = BankNotFound) <=> (listing = <<>>)
              /\ exc # BankNotFound => selected_filer = listing[1]

====
